---- MODULE Spec2Model ----
(***************************************************************************)
(* Model of generator/generator.py: the schema-driven dataset generator    *)
(* (DatasetGenerator._generate_data and its typed column generators), the  *)
(* range partitioner (_split_range_into_random_parts) and the linked       *)
(* two-table recipe of PlasticcGenerator.generate.                         *)
(***************************************************************************)
EXTENDS Integers, Sequences, FiniteSets, TLC

(***************************************************************************)
(* Bounds of the model.                                                    *)
(***************************************************************************)
MaxTotal == 7
MaxParts == 3
MaxSize == 3
MaxCols == 2
MaxRecords == 2
MaxCpus == 2
MaxCalls == 2

\* generator.py:25
seed == 42

VARIABLES
    \* _split_range_into_random_parts: arguments and locals
    range_max, num_parts, min_size, max_size,
    p, current, parts, low, high, ppc,
    \* _generate_data: arguments, the generator object's flags, locals
    fields, records_number, parallel, num_cpus,
    map_args, arg_idx, futures, completed, data, ret, error, pc,
    \* the distributed runtime (process-wide) and the output file
    ray_initialized, ray_num_cpus, ray_inits, csv,
    \* the calls made so far and the tables they returned
    calls, returned,
    \* PlasticcGenerator.generate.generate_dataset: arguments and locals
    split, data_records, metadata_records, object_numbers, metadata_fields,
    metadata, numbers, data_table, ids, outputs, lpc

partVars == <<range_max, num_parts, min_size, max_size,
              p, current, parts, low, high, ppc>>

callVars == <<parallel, num_cpus, map_args, arg_idx, futures, completed,
              data, ret, error, pc>>

rayVars == <<ray_initialized, ray_num_cpus, ray_inits>>

genVars == <<fields, records_number, callVars, rayVars, csv, calls, returned>>

linkVars == <<split, data_records, metadata_records, object_numbers,
              metadata_fields, metadata, numbers, data_table, ids, outputs,
              lpc>>

vars == <<partVars, genVars, linkVars>>

(***************************************************************************)
(* Python helpers.                                                         *)
(***************************************************************************)
Max(a, b) == IF a >= b THEN a ELSE b
Min(a, b) == IF a <= b THEN a ELSE b

RECURSIVE SumSeq(_)
SumSeq(s) == IF s = <<>> THEN 0 ELSE Head(s) + SumSeq(Tail(s))

\* mutant of PyRoundDiv: a tie rounded up instead of to the even neighbour
PyRoundDiv_HalfUp(num, den) ==
    LET q == num \div den
        r == num - q * den
    IN  IF 2 * r < den THEN q ELSE q + 1

\* Python 3 round(num / den) for integers num and den > 0: the quotient is
\* rounded to the nearest integer, a tie going to the even neighbour.
PyRoundDiv(num, den) ==
    LET q == num \div den
        r == num - q * den
    IN  IF 2 * r < den THEN q
        ELSE IF 2 * r > den THEN q + 1
        ELSE IF q % 2 = 0 THEN q ELSE q + 1

(***************************************************************************)
(* _split_range_into_random_parts (generator.py:132-151).                  *)
(***************************************************************************)
\* mutants of DrawRange: the clamps of lines 144 and 146 left out, and the
\* correction of line 144 applied with the wrong sign
DrawRange_NoClamp(rmax, nparts, mn, mx, pp, cur) ==
    LET remaining == rmax - cur
        avg_remaining_size == PyRoundDiv(remaining, nparts - pp)
        delta == PyRoundDiv(mx + mn, 2) - avg_remaining_size
    IN  IF delta > 0
        THEN [low |-> mn, high |-> mx - delta]
        ELSE [low |-> mn - delta, high |-> mx]

DrawRange_WrongSign(rmax, nparts, mn, mx, pp, cur) ==
    LET remaining == rmax - cur
        avg_remaining_size == PyRoundDiv(remaining, nparts - pp)
        delta == PyRoundDiv(mx + mn, 2) - avg_remaining_size
    IN  IF delta > 0
        THEN [low |-> mn, high |-> Max(mx + delta, mn)]
        ELSE [low |-> Min(mn - delta, mx), high |-> mx]

\* lines 138-146: the range of one draw after bias correction
DrawRange(rmax, nparts, mn, mx, pp, cur) ==
    LET remaining == rmax - cur
        avg_remaining_size == PyRoundDiv(remaining, nparts - pp)
        delta == PyRoundDiv(mx + mn, 2) - avg_remaining_size
    IN  IF delta > 0
        THEN [low |-> mn, high |-> Max(mx - delta, mn)]
        ELSE [low |-> Min(mn - delta, mx), high |-> mx]

\* one iteration of the loop of line 137; rnd.integers(low, high,
\* endpoint=True) returns any value of low..high and raises ValueError
\* when low > high
SplitStep ==
    /\ ppc = "loop"
    /\ p < num_parts
    /\ LET r == DrawRange(range_max, num_parts, min_size, max_size, p, current)
       IN  /\ low' = r.low
           /\ high' = r.high
           /\ IF r.low <= r.high
              THEN \E size \in r.low .. r.high :
                      /\ parts' = Append(parts, size)
                      /\ current' = current + size
                      /\ p' = p + 1
                      /\ ppc' = ppc
              ELSE /\ ppc' = "ValueError"
                   /\ UNCHANGED <<parts, current, p>>
    /\ UNCHANGED <<range_max, num_parts, min_size, max_size>>

\* line 151: return parts
SplitReturn ==
    /\ ppc = "loop"
    /\ p = num_parts
    /\ ppc' = "done"
    /\ UNCHANGED <<range_max, num_parts, min_size, max_size,
                   p, current, parts, low, high>>

PartLocalsInit ==
    /\ p = 0
    /\ current = 0
    /\ parts = <<>>
    /\ low = 0
    /\ high = 0
    /\ ppc = "loop"

\* no call of _generate_data in progress, nothing generated yet
CallLocalsInit ==
    /\ parallel = FALSE
    /\ num_cpus = 1
    /\ map_args = <<>>
    /\ arg_idx = 0
    /\ futures = <<>>
    /\ completed = <<>>
    /\ data = <<>>
    /\ ret = <<>>
    /\ error = <<>>
    /\ pc = "idle"

\* generate_dataset is not running
LinkedOff ==
    /\ split = "none"
    /\ data_records = 0
    /\ metadata_records = 0
    /\ object_numbers = <<0, 0>>
    /\ metadata_fields = <<>>
    /\ metadata = <<>>
    /\ numbers = <<>>
    /\ data_table = <<>>
    /\ ids = <<>>
    /\ outputs = <<>>
    /\ lpc = "off"

ProcessInit ==
    /\ CallLocalsInit
    /\ ray_initialized = FALSE
    /\ ray_num_cpus = 0
    /\ ray_inits = <<>>
    /\ csv = <<>>
    /\ calls = 0
    /\ returned = {}

\* the partitioner called on every small argument tuple
InitPartition ==
    /\ range_max \in -2 .. MaxTotal
    /\ num_parts \in 0 .. MaxParts
    /\ min_size \in 0 .. MaxSize
    /\ max_size \in 0 .. MaxSize
    /\ PartLocalsInit
    /\ fields = <<>>
    /\ records_number = 0
    /\ ProcessInit
    /\ LinkedOff

NextPartition ==
    \/ SplitStep /\ UNCHANGED <<genVars, linkVars>>
    \/ SplitReturn /\ UNCHANGED <<genVars, linkVars>>

SpecPartition == InitPartition /\ [][NextPartition]_vars

\* the scenario partition(total=100, count=4, min_size=10, max_size=40)
Scenario == [total |-> 100, count |-> 4, min_size |-> 10, max_size |-> 40]

InitScenario ==
    /\ range_max = Scenario.total
    /\ num_parts = Scenario.count
    /\ min_size = Scenario.min_size
    /\ max_size = Scenario.max_size
    /\ PartLocalsInit
    /\ fields = <<>>
    /\ records_number = 0
    /\ ProcessInit
    /\ LinkedOff

SpecScenario == InitScenario /\ [][NextPartition]_vars

(***************************************************************************)
(* Random substreams.  A numpy Generator built by default_rng from a       *)
(* SeedSequence is a deterministic function of the sequence's entropy and  *)
(* spawn key; Raw is the k-th raw value it yields.                         *)
(***************************************************************************)
\* mutant of Spawn: the substream is chosen per worker instead of per column
Spawn_PerWorker(entropy, n) ==
    [i \in 1 .. n |->
        [entropy |-> entropy,
         spawn_key |-> IF parallel THEN (i - 1) % num_cpus ELSE i - 1]]

\* SeedSequence(entropy).spawn(n) (line 87): child i has spawn key (i,)
Spawn(entropy, n) ==
    [i \in 1 .. n |-> [entropy |-> entropy, spawn_key |-> i - 1]]

Raw(rnd, k) == (rnd.entropy + 5 * rnd.spawn_key + 3 * k + rnd.spawn_key * k) % 4

(***************************************************************************)
(* Typed column generators (generator.py:39-77).  A generator returns an   *)
(* array of values, a scalar, or raises.  Values are [t, v] cells; a float *)
(* is held in quarters, as the raw values are.                             *)
(***************************************************************************)
NaN == [t |-> "nan", v |-> 0]

Array(values) == [ok |-> TRUE, scalar |-> FALSE, values |-> values]
Scalar(value) == [ok |-> TRUE, scalar |-> TRUE, values |-> <<value>>]
Raises(kind, args) == [ok |-> FALSE, error |-> [kind |-> kind, args |-> args]]

\* lines 39-42: rnd.integers(low, high, size=records, endpoint=True)
generate_int(rnd, records, series_params) ==
    LET lo == series_params[1]
        hi == series_params[2]
    IN  IF lo > hi
        THEN Raises("ValueError", <<"low > high">>)
        ELSE Array([k \in 1 .. records |->
                      [t |-> "int", v |-> lo + (Raw(rnd, k) % (hi - lo + 1))]])

\* lines 44-47: rnd.uniform(low, high, size=records)
generate_float(rnd, records, series_params) ==
    LET lo == series_params[1]
        hi == series_params[2]
    IN  Array([k \in 1 .. records |->
                 [t |-> "float", v |-> 4 * lo + (hi - lo) * Raw(rnd, k)]])

\* lines 49-58: whole seconds drawn from 0 .. high - low, added onto low
generate_datetime(rnd, records, series_params) ==
    LET lo == series_params[1]
        hi == series_params[2]
        int_delta_seconds == hi - lo
    IN  IF int_delta_seconds < 0
        THEN Raises("ValueError", <<"low > high">>)
        ELSE Array([k \in 1 .. records |->
                      [t |-> "datetime",
                       v |-> lo + (Raw(rnd, k) % (int_delta_seconds + 1))]])

\* lines 60-62: rnd.choice(series_params, size=records)
generate_categoricals(rnd, records, series_params) ==
    Array([k \in 1 .. records |->
             [t |-> "category",
              v |-> series_params[1 + (Raw(rnd, k) % Len(series_params))]]])

\* lines 64-66: return np.nan
generate_object(rnd, records, series_params) == Scalar(NaN)

\* lines 69-77: the dispatch table
GeneratorNames ==
    [type_name \in {"int64", "int32", "float64", "float32",
                    "datetime64[ns]", "categorical", "object"} |->
        CASE type_name \in {"int64", "int32"} -> "_generate_int"
          [] type_name \in {"float64", "float32"} -> "_generate_float"
          [] type_name = "datetime64[ns]" -> "_generate_datetime"
          [] type_name = "categorical" -> "_generate_categoricals"
          [] type_name = "object" -> "_generate_object"]

\* cls._generators[type_name](rnd, records, series_params) (line 83); an
\* unknown key raises KeyError(type_name)
CallGenerator(type_name, rnd, records, series_params) ==
    IF type_name \notin DOMAIN GeneratorNames
    THEN Raises("KeyError", <<type_name>>)
    ELSE LET g == GeneratorNames[type_name]
         IN  CASE g = "_generate_int" ->
                    generate_int(rnd, records, series_params)
               [] g = "_generate_float" ->
                    generate_float(rnd, records, series_params)
               [] g = "_generate_datetime" ->
                    generate_datetime(rnd, records, series_params)
               [] g = "_generate_categoricals" ->
                    generate_categoricals(rnd, records, series_params)
               [] g = "_generate_object" ->
                    generate_object(rnd, records, series_params)

\* pd.Series(x, name=name): an array gives one row per element, a scalar
\* without an index gives a single row
Series(out, name) == [name |-> name, values |-> out.values]

\* lines 79-84: _generate_series returns (name, Series) or raises
generate_series(params) ==
    LET out == CallGenerator(params.type_name, params.rnd,
                             params.records, params.series_params)
    IN  IF out.ok
        THEN [ok |-> TRUE, key |-> params.name,
              value |-> Series(out, params.name)]
        ELSE out

(***************************************************************************)
(* Python dict as the sequence of its (key, value) items in insertion      *)
(* order.                                                                  *)
(***************************************************************************)
DictSet(d, key, value) ==
    IF \E i \in 1 .. Len(d) : d[i][1] = key
    THEN [i \in 1 .. Len(d) |->
            IF d[i][1] = key THEN <<key, value>> ELSE d[i]]
    ELSE Append(d, <<key, value>>)

RECURSIVE DictOf(_)
DictOf(pairs) ==
    IF pairs = <<>> THEN <<>>
    ELSE LET n == Len(pairs)
         IN  DictSet(DictOf(SubSeq(pairs, 1, n - 1)), pairs[n][1], pairs[n][2])

Keys(d) == [i \in 1 .. Len(d) |-> d[i][1]]

\* pd.DataFrame(data) for a dict of Series with default indexes: the rows
\* are the union of the indexes, a shorter column is filled with NaN
DataFrame(d) ==
    LET rows == IF d = <<>> THEN 0
                ELSE CHOOSE n \in {Len(d[i][2].values) : i \in 1 .. Len(d)} :
                        \A i \in 1 .. Len(d) : Len(d[i][2].values) <= n
    IN  [i \in 1 .. Len(d) |->
            <<d[i][1],
              [k \in 1 .. rows |->
                 IF k <= Len(d[i][2].values) THEN d[i][2].values[k] ELSE NaN]>>]

(***************************************************************************)
(* _generate_data (generator.py:86-123) and _generate_and_write_data       *)
(* (generator.py:125-130).                                                 *)
(***************************************************************************)
\* lines 88-97: one argument tuple per column, in fields.items() order
MapArgs(flds, records) ==
    LET generators == Spawn(seed, Len(flds))
    IN  [i \in 1 .. Len(flds) |->
            [rnd |-> generators[i],
             name |-> flds[i][1],
             type_name |-> flds[i][2][1],
             records |-> records,
             series_params |-> Tail(flds[i][2])]]

Pending == [state |-> "pending"]

\* mutant of Call: ray.init without the ray.is_initialized() test of line 102
Call_AlwaysInit(par, cpus) ==
    /\ pc = "idle"
    /\ calls < MaxCalls
    /\ calls' = calls + 1
    /\ parallel' = par
    /\ num_cpus' = cpus
    /\ map_args' = MapArgs(fields, records_number)
    /\ error' = <<>>
    /\ ret' = <<>>
    /\ data' = <<>>
    /\ completed' = <<>>
    /\ IF par
       THEN /\ ray_initialized' = TRUE
            /\ ray_num_cpus' = cpus
            /\ ray_inits' = Append(ray_inits,
                                   [call |-> calls + 1, num_cpus |-> cpus])
            /\ futures' = [i \in 1 .. Len(fields) |-> Pending]
            /\ arg_idx' = 0
            /\ pc' = "gather"
       ELSE /\ UNCHANGED rayVars
            /\ futures' = <<>>
            /\ arg_idx' = 1
            /\ pc' = "sequential"
    /\ UNCHANGED <<fields, records_number, csv, returned>>

\* a generator object with the given flags calls _generate_data (through
\* _generate_and_write_data, line 128): lines 87-115 up to ray.get, or
\* lines 87-118
Call(par, cpus) ==
    /\ pc = "idle"
    /\ calls < MaxCalls
    /\ calls' = calls + 1
    /\ parallel' = par
    /\ num_cpus' = cpus
    /\ map_args' = MapArgs(fields, records_number)
    /\ error' = <<>>
    /\ ret' = <<>>
    /\ data' = <<>>
    /\ completed' = <<>>
    /\ IF par
       THEN /\ IF ~ray_initialized
               THEN /\ ray_initialized' = TRUE
                    /\ ray_num_cpus' = cpus
                    /\ ray_inits' = Append(ray_inits,
                                           [call |-> calls + 1, num_cpus |-> cpus])
               ELSE UNCHANGED rayVars
            /\ futures' = [i \in 1 .. Len(fields) |-> Pending]
            /\ arg_idx' = 0
            /\ pc' = "gather"
       ELSE /\ UNCHANGED rayVars
            /\ futures' = <<>>
            /\ arg_idx' = 1
            /\ pc' = "sequential"
    /\ UNCHANGED <<fields, records_number, csv, returned>>

\* mutant of SeqStep: a failing column is skipped and the loop goes on
SeqStep_Swallow ==
    /\ pc = "sequential"
    /\ arg_idx <= Len(map_args)
    /\ LET r == generate_series(map_args[arg_idx])
       IN  IF r.ok
           THEN data' = DictSet(data, r.key, r.value)
           ELSE data' = data
    /\ arg_idx' = arg_idx + 1
    /\ UNCHANGED <<fields, records_number, parallel, num_cpus, map_args,
                   futures, completed, ret, error, pc, rayVars, csv, calls,
                   returned>>

\* lines 119-121: one iteration of the sequential loop
SeqStep ==
    /\ pc = "sequential"
    /\ arg_idx <= Len(map_args)
    /\ LET r == generate_series(map_args[arg_idx])
       IN  IF r.ok
           THEN /\ data' = DictSet(data, r.key, r.value)
                /\ arg_idx' = arg_idx + 1
                /\ UNCHANGED <<pc, error>>
           ELSE /\ pc' = "failed"
                /\ error' = <<r.error>>
                /\ UNCHANGED <<data, arg_idx>>
    /\ UNCHANGED <<fields, records_number, parallel, num_cpus, map_args,
                   futures, completed, ret, rayVars, csv, calls, returned>>

\* line 123 after the sequential loop
SeqReturn ==
    /\ pc = "sequential"
    /\ arg_idx > Len(map_args)
    /\ ret' = <<data>>
    /\ pc' = "returned"
    /\ UNCHANGED <<fields, records_number, parallel, num_cpus, map_args,
                   arg_idx, futures, completed, data, error, rayVars, csv,
                   calls, returned>>

\* a worker of the runtime runs remote_map(self._generate_series, x) for
\* one submitted task (lines 110-112); tasks finish in any order
TaskRun(i) ==
    /\ pc = "gather"
    /\ i \in 1 .. Len(futures)
    /\ futures[i] = Pending
    /\ LET r == generate_series(map_args[i])
       IN  futures' = [futures EXCEPT ![i] =
                          IF r.ok
                          THEN [state |-> "done", value |-> <<r.key, r.value>>]
                          ELSE [state |-> "failed", error |-> r.error]]
    /\ completed' = Append(completed, i)
    /\ UNCHANGED <<fields, records_number, parallel, num_cpus, map_args,
                   arg_idx, data, ret, error, pc, rayVars, csv, calls,
                   returned>>

\* mutant of Gather: the table is assembled in the order of completion
Gather_ArrivalOrder ==
    /\ pc = "gather"
    /\ \A i \in 1 .. Len(futures) : futures[i].state = "done"
    /\ LET d == DictOf([k \in 1 .. Len(completed) |->
                          futures[completed[k]].value])
       IN  /\ data' = d
           /\ ret' = <<d>>
    /\ pc' = "returned"
    /\ UNCHANGED <<fields, records_number, parallel, num_cpus, map_args,
                   arg_idx, futures, completed, error, rayVars, csv, calls,
                   returned>>

\* lines 114-116 and 123: ray.get returns the results in the order of the
\* list of futures once all are there
Gather ==
    /\ pc = "gather"
    /\ \A i \in 1 .. Len(futures) : futures[i].state = "done"
    /\ LET d == DictOf([i \in 1 .. Len(futures) |-> futures[i].value])
       IN  /\ data' = d
           /\ ret' = <<d>>
    /\ pc' = "returned"
    /\ UNCHANGED <<fields, records_number, parallel, num_cpus, map_args,
                   arg_idx, futures, completed, error, rayVars, csv, calls,
                   returned>>

\* line 115: ray.get raises the exception of a failed task
GatherFail ==
    /\ pc = "gather"
    /\ \E i \in 1 .. Len(futures) :
          /\ futures[i].state = "failed"
          /\ error' = <<futures[i].error>>
    /\ pc' = "failed"
    /\ UNCHANGED <<fields, records_number, parallel, num_cpus, map_args,
                   arg_idx, futures, completed, data, ret, rayVars, csv,
                   calls, returned>>

\* lines 129-130: the returned table is written and the call ends
WriteCsv ==
    /\ pc = "returned"
    /\ csv' = <<DataFrame(ret[1])>>
    /\ returned' = returned \cup
          {[parallel |-> parallel,
            workers |-> IF parallel THEN ray_num_cpus ELSE 0,
            table |-> ret[1]]}
    /\ pc' = "idle"
    /\ map_args' = <<>>
    /\ arg_idx' = 0
    /\ futures' = <<>>
    /\ completed' = <<>>
    /\ data' = <<>>
    /\ ret' = <<>>
    /\ UNCHANGED <<fields, records_number, parallel, num_cpus, error,
                   rayVars, calls>>

\* the exception leaves _generate_data and _generate_and_write_data
\* (line 128); the locals of the call are gone
Propagate ==
    /\ pc = "failed"
    /\ pc' = "idle"
    /\ map_args' = <<>>
    /\ arg_idx' = 0
    /\ futures' = <<>>
    /\ completed' = <<>>
    /\ data' = <<>>
    /\ UNCHANGED <<fields, records_number, parallel, num_cpus, ret, error,
                   rayVars, csv, calls, returned>>

\* the schemas of the model: every sequence of at most MaxCols field specs
ColumnNames == <<"c1", "c2", "c3", "c4">>

FieldSpecs ==
    { <<"int64", 0, 2>>, <<"float64", 0, 1>>, <<"datetime64[ns]", 1, 2>>,
      <<"categorical", 6, 15>>, <<"object", 0, 0>>, <<"string", 0, 0>>,
      <<"int32", 1, 0>> }

Schemas ==
    UNION { { [i \in 1 .. n |-> <<ColumnNames[i], f[i]>>] :
                f \in [1 .. n -> FieldSpecs] } : n \in 0 .. MaxCols }

Init ==
    /\ fields \in Schemas
    /\ records_number \in 0 .. MaxRecords
    /\ ProcessInit
    /\ range_max = 0 /\ num_parts = 0 /\ min_size = 0 /\ max_size = 0
    /\ PartLocalsInit
    /\ LinkedOff

Next ==
    \/ \E par \in BOOLEAN, cpus \in 1 .. MaxCpus :
          Call(par, cpus) /\ UNCHANGED <<partVars, linkVars>>
    \/ SeqStep /\ UNCHANGED <<partVars, linkVars>>
    \/ SeqReturn /\ UNCHANGED <<partVars, linkVars>>
    \/ \E i \in 1 .. MaxCols + 1 : TaskRun(i) /\ UNCHANGED <<partVars, linkVars>>
    \/ Gather /\ UNCHANGED <<partVars, linkVars>>
    \/ GatherFail /\ UNCHANGED <<partVars, linkVars>>
    \/ WriteCsv /\ UNCHANGED <<partVars, linkVars>>
    \/ Propagate /\ UNCHANGED <<partVars, linkVars>>

Spec == Init /\ [][Next]_vars

(***************************************************************************)
(* PlasticcGenerator.generate.generate_dataset (generator.py:399-422).     *)
(* The schemas and the per-object bounds of the source are scaled down to  *)
(* the ranges of the model; the recipe is the source's.                    *)
(***************************************************************************)
\* _generate_data as a function of its arguments: the table, or the error
\* of the first column that raises
GenerateData(flds, records) ==
    LET args == MapArgs(flds, records)
        results == [i \in 1 .. Len(args) |-> generate_series(args[i])]
    IN  IF \A i \in 1 .. Len(args) : results[i].ok
        THEN [ok |-> TRUE,
              table |-> DictOf([i \in 1 .. Len(args) |->
                                  <<results[i].key, results[i].value>>])]
        ELSE LET bad == CHOOSE i \in 1 .. Len(args) :
                            /\ ~results[i].ok
                            /\ \A j \in 1 .. i - 1 : results[j].ok
             IN  [ok |-> FALSE, error |-> results[bad].error]

\* lines 102-108 inside a _generate_data call of the recipe
RayInitIfNeeded ==
    IF parallel /\ ~ray_initialized
    THEN /\ ray_initialized' = TRUE
         /\ ray_num_cpus' = num_cpus
         /\ ray_inits' = Append(ray_inits,
                                [call |-> calls + 1, num_cpus |-> num_cpus])
    ELSE UNCHANGED rayVars

\* lines 309-320 and 339-350: object_id first, then the other columns
MetadataFields(id_low, id_high) ==
    << <<"object_id", <<"int32", id_low, id_high>>>>,
       <<"ddf", <<"int32", 0, 1>>>> >>

\* lines 295-308
DataFields ==
    << <<"passband", <<"int32", 0, 5>>>>,
       <<"detected", <<"int32", 0, 1>>>> >>

Rows(df) == IF df = <<>> THEN 0 ELSE Len(df[1][2])

\* df[name]
Column(df, name) == df[CHOOSE i \in 1 .. Len(df) : df[i][1] = name][2]

\* np.concatenate([np.repeat(np.array([x]), n) for (x, n) in zip(xs, ns)])
\* over the pairs of the zip, for a non-empty list of pairs
RECURSIVE RepeatEach(_, _, _)
RepeatEach(xs, ns, len) ==
    IF len = 0 THEN <<>>
    ELSE RepeatEach(xs, ns, len - 1) \o [k \in 1 .. ns[len] |-> xs[len]]

\* mutant of GenerateChild: the child is sized by the requested target
GenerateChild_Target ==
    /\ lpc = "partition"
    /\ ppc = "done"
    /\ numbers' = parts
    /\ data_records' = data_records
    /\ LET r == GenerateData(DataFields, data_records)
       IN  IF r.ok
           THEN /\ data_table' = DataFrame(r.table)
                /\ lpc' = "ids"
                /\ error' = error
           ELSE /\ data_table' = data_table
                /\ lpc' = "failed"
                /\ error' = <<r.error>>
    /\ RayInitIfNeeded
    /\ calls' = calls + 1
    /\ UNCHANGED <<partVars, fields, records_number, parallel, num_cpus,
                   map_args, arg_idx, futures, completed, data, ret, pc, csv,
                   returned, split, metadata_records, object_numbers,
                   metadata_fields, metadata, ids, outputs>>

\* lines 408-413: the parent table is generated and the partitioner called
GenerateMetadata ==
    /\ lpc = "start"
    /\ LET r == GenerateData(metadata_fields, metadata_records)
       IN  IF r.ok
           THEN /\ metadata' = DataFrame(r.table)
                /\ lpc' = "partition"
                /\ error' = error
           ELSE /\ metadata' = metadata
                /\ lpc' = "failed"
                /\ error' = <<r.error>>
    /\ RayInitIfNeeded
    /\ calls' = calls + 1
    /\ range_max' = data_records
    /\ num_parts' = metadata_records
    /\ min_size' = object_numbers[1]
    /\ max_size' = object_numbers[2]
    /\ UNCHANGED <<p, current, parts, low, high, ppc>>
    /\ UNCHANGED <<fields, records_number, parallel, num_cpus, map_args,
                   arg_idx, futures, completed, data, ret, pc, csv, returned,
                   split, data_records, metadata_records, object_numbers,
                   metadata_fields, numbers, data_table, ids, outputs>>

\* lines 411-415: the child table is generated with the sum of the parts
GenerateChild ==
    /\ lpc = "partition"
    /\ ppc = "done"
    /\ numbers' = parts
    /\ data_records' = SumSeq(parts)
    /\ LET r == GenerateData(DataFields, SumSeq(parts))
       IN  IF r.ok
           THEN /\ data_table' = DataFrame(r.table)
                /\ lpc' = "ids"
                /\ error' = error
           ELSE /\ data_table' = data_table
                /\ lpc' = "failed"
                /\ error' = <<r.error>>
    /\ RayInitIfNeeded
    /\ calls' = calls + 1
    /\ UNCHANGED <<partVars, fields, records_number, parallel, num_cpus,
                   map_args, arg_idx, futures, completed, data, ret, pc, csv,
                   returned, split, metadata_records, object_numbers,
                   metadata_fields, metadata, ids, outputs>>

\* line 416: np.concatenate raises ValueError on an empty list of arrays
BuildIds ==
    /\ lpc = "ids"
    /\ LET xs == Column(metadata, "object_id")
           len == Min(Len(xs), Len(numbers))
       IN  IF len = 0
           THEN /\ lpc' = "failed"
                /\ error' = <<[kind |-> "ValueError",
                               args |-> <<"need at least one array to concatenate">>]>>
                /\ ids' = ids
           ELSE /\ ids' = RepeatEach(xs, numbers, len)
                /\ lpc' = "insert"
                /\ error' = error
    /\ UNCHANGED <<partVars, fields, records_number, parallel, num_cpus,
                   map_args, arg_idx, futures, completed, data, ret, pc,
                   rayVars, csv, calls, returned, split, data_records,
                   metadata_records, object_numbers, metadata_fields,
                   metadata, numbers, data_table, outputs>>

\* line 417: data.insert(0, column="object_id", value=ids) raises ValueError
\* when the column exists or the length of ids is not the number of rows
InsertIds ==
    /\ lpc = "insert"
    /\ IF \/ \E i \in 1 .. Len(data_table) : data_table[i][1] = "object_id"
          \/ Len(ids) # Rows(data_table)
       THEN /\ lpc' = "failed"
            /\ error' = <<[kind |-> "ValueError", args |-> <<"insert">>]>>
            /\ data_table' = data_table
       ELSE /\ data_table' = <<<<"object_id", ids>>>> \o data_table
            /\ lpc' = "write"
            /\ error' = error
    /\ UNCHANGED <<partVars, fields, records_number, parallel, num_cpus,
                   map_args, arg_idx, futures, completed, data, ret, pc,
                   rayVars, csv, calls, returned, split, data_records,
                   metadata_records, object_numbers, metadata_fields,
                   metadata, numbers, ids, outputs>>

\* lines 419-422: both tables of the split are written
WriteOutputs ==
    /\ lpc = "write"
    /\ outputs' = <<[split |-> split, data |-> data_table,
                     metadata |-> metadata]>>
    /\ lpc' = "written"
    /\ UNCHANGED <<partVars, genVars, split, data_records, metadata_records,
                   object_numbers, metadata_fields, metadata, numbers,
                   data_table, ids>>

\* generate_dataset called for one split (lines 424-441)
InitLinked ==
    /\ split \in {"training_set", "test_set"}
    /\ data_records \in 0 .. MaxTotal
    /\ metadata_records \in 0 .. MaxParts
    /\ object_numbers \in {<<mn, mx>> : mn \in 1 .. MaxSize, mx \in 1 .. MaxSize}
    /\ object_numbers[1] <= object_numbers[2]
    /\ metadata_fields \in {MetadataFields(1, h) : h \in 1 .. MaxSize}
    /\ metadata = <<>>
    /\ numbers = <<>>
    /\ data_table = <<>>
    /\ ids = <<>>
    /\ outputs = <<>>
    /\ lpc = "start"
    /\ fields = <<>>
    /\ records_number = 0
    /\ parallel \in BOOLEAN
    /\ num_cpus \in 1 .. MaxCpus
    /\ map_args = <<>>
    /\ arg_idx = 0
    /\ futures = <<>>
    /\ completed = <<>>
    /\ data = <<>>
    /\ ret = <<>>
    /\ error = <<>>
    /\ pc = "idle"
    /\ ray_initialized = FALSE
    /\ ray_num_cpus = 0
    /\ ray_inits = <<>>
    /\ csv = <<>>
    /\ calls = 0
    /\ returned = {}
    /\ range_max = 0 /\ num_parts = 0 /\ min_size = 0 /\ max_size = 0
    /\ PartLocalsInit

NextLinked ==
    \/ GenerateMetadata
    \/ lpc = "partition" /\ SplitStep /\ UNCHANGED <<genVars, linkVars>>
    \/ lpc = "partition" /\ SplitReturn /\ UNCHANGED <<genVars, linkVars>>
    \/ GenerateChild
    \/ BuildIds
    \/ InsertIds
    \/ WriteOutputs

SpecLinked == InitLinked /\ [][NextLinked]_vars

(***************************************************************************)
(* Range partitioner claims.                                               *)
(***************************************************************************)
ValidSplitArgs == min_size <= max_size /\ num_parts >= 1

\* C1: for min_size <= max_size and count >= 1 and every outcome of the
\* draws, the range [low, high] of every draw is not inverted and lies in
\* [min_size, max_size], every part lies in [min_size, max_size], the draw
\* never raises, and the returned list has exactly count values.
C1_PartsWithinBounds ==
    ValidSplitArgs =>
        /\ ppc # "ValueError"
        /\ p > 0 => (min_size <= low /\ low <= high /\ high <= max_size)
        /\ \A i \in 1 .. Len(parts) :
              min_size <= parts[i] /\ parts[i] <= max_size
        /\ Len(parts) = p
        /\ ppc = "done" => Len(parts) = num_parts

C1_Witness ==
    /\ ValidSplitArgs
    /\ ppc = "done"
    /\ num_parts = MaxParts
    /\ min_size < low
    /\ parts[1] = max_size
    /\ parts[num_parts] < max_size

Abs(x) == IF x < 0 THEN -x ELSE x

\* C2 as stated: for min_size <= max_size and count >= 1 the realized sum
\* differs from total by at most count * (max_size - min_size).
C2_SumNearTotal ==
    (ValidSplitArgs /\ ppc = "done") =>
        Abs(SumSeq(parts) - range_max) <= num_parts * (max_size - min_size)

\* C2 amended: the bound holds when the target is attainable, that is when
\* count * min_size <= total <= count * max_size.
C2_SumNearAttainableTotal ==
    (/\ ValidSplitArgs
     /\ ppc = "done"
     /\ num_parts * min_size <= range_max
     /\ range_max <= num_parts * max_size) =>
        Abs(SumSeq(parts) - range_max) <= num_parts * (max_size - min_size)

C2_Witness ==
    /\ ValidSplitArgs
    /\ ppc = "done"
    /\ num_parts * min_size <= range_max
    /\ range_max <= num_parts * max_size
    /\ num_parts >= 2
    /\ SumSeq(parts) # range_max

\* C3 as stated: partition(100, 4, 10, 40) yields 4 entries in [10,40]
\* whose sum lies in [90,110], whatever the draws.
C3_ScenarioSum ==
    ppc = "done" =>
        /\ Len(parts) = 4
        /\ \A i \in 1 .. 4 : 10 <= parts[i] /\ parts[i] <= 40
        /\ 90 <= SumSeq(parts) /\ SumSeq(parts) <= 110

\* C3 amended: partition(100, 4, 10, 40) yields 4 entries in [10,40] whose
\* sum lies in [85,115], whatever the draws.
C3_ScenarioSumExact ==
    ppc = "done" =>
        /\ Len(parts) = 4
        /\ \A i \in 1 .. 4 : 10 <= parts[i] /\ parts[i] <= 40
        /\ 85 <= SumSeq(parts) /\ SumSeq(parts) <= 115

C3_Witness ==
    /\ ppc = "done"
    /\ range_max = 100 /\ num_parts = 4 /\ min_size = 10 /\ max_size = 40
    /\ SumSeq(parts) = 115

(***************************************************************************)
(* Generation coordinator claims.                                          *)
(***************************************************************************)
\* C4 as stated: every column of the table returned by _generate_data has
\* exactly records values, 'object' columns included.
C4_ColumnsHaveRecordsValues ==
    ret # <<>> =>
        \A i \in 1 .. Len(ret[1]) :
            Len(ret[1][i][2].values) = records_number

\* the table the schema yields when column i draws from the substream of
\* spawn key i - 1 of the global seed
ReferenceTable ==
    [i \in 1 .. Len(fields) |->
        LET rnd == [entropy |-> seed, spawn_key |-> i - 1]
            name == fields[i][1]
        IN  <<name,
              Series(CallGenerator(fields[i][2][1], rnd, records_number,
                                   Tail(fields[i][2])), name)>>]

\* C5: for the fixed seed, schema and record count, all tables returned by
\* sequential and parallel calls, whatever the worker count, the completion
\* order and the earlier calls, are the same table, and the substream of a
\* column is the one of the global seed and the column's position.
C5_Deterministic ==
    /\ \A r1 \in returned : \A r2 \in returned : r1.table = r2.table
    /\ \A r \in returned : r.table = ReferenceTable
    /\ \A i \in 1 .. Len(map_args) :
          map_args[i].rnd = [entropy |-> seed, spawn_key |-> i - 1]

C5_Witness ==
    \E r1 \in returned : \E r2 \in returned :
        /\ r1.parallel /\ r1.workers = MaxCpus
        /\ ~r2.parallel
        /\ Len(r1.table) >= 2
        /\ records_number >= 2
        /\ r1.table[1][2].values # r1.table[2][2].values

\* C6: in parallel mode there is one task per schema column, the table is
\* assembled only when every task has completed, and its column order is
\* the schema order whatever the completion order; sequential mode yields
\* the same column order.
C6_ColumnOrder ==
    /\ pc = "gather" =>
          /\ Len(futures) = Len(fields)
          /\ \A i \in 1 .. Len(fields) : map_args[i].name = fields[i][1]
    /\ (pc = "returned" /\ parallel) =>
          /\ Len(completed) = Len(fields)
          /\ \A i \in 1 .. Len(fields) : \E k \in 1 .. Len(completed) :
                completed[k] = i
    /\ pc = "returned" =>
          Keys(ret[1]) = [i \in 1 .. Len(fields) |-> fields[i][1]]

C6_Witness ==
    /\ pc = "returned"
    /\ parallel
    /\ Len(fields) >= 2
    /\ completed[1] > completed[2]

UnknownTypeColumns ==
    {i \in 1 .. Len(fields) : fields[i][2][1] \notin DOMAIN GeneratorNames}

Mentions(err, s) == \E k \in 1 .. Len(err.args) : err.args[k] = s

\* C9 as stated: a failure on an unrecognized logical type names the
\* offending column and its type tag and is detected before any generation
\* work: no earlier column generated, no task submitted, the runtime not
\* initialized by the call.
C9_FailFast ==
    (pc = "failed" /\ error[1].kind = "KeyError") =>
        /\ \E i \in UnknownTypeColumns :
              /\ Mentions(error[1], fields[i][1])
              /\ Mentions(error[1], fields[i][2][1])
        /\ data = <<>>
        /\ futures = <<>>
        /\ \A k \in 1 .. Len(ray_inits) : ray_inits[k].call # calls

FailingColumns ==
    {i \in 1 .. Len(fields) :
        ~generate_series(MapArgs(fields, records_number)[i]).ok}

\* C10: when the generation of a column fails, in either mode, no table is
\* returned and nothing is written; a failing column ends the sequential
\* loop, a failed task stays failed, and the only step of a failed call
\* hands the error to the caller.
C10_WholeCallFails ==
    /\ [](FailingColumns # {} => (ret = <<>> /\ csv = <<>> /\ returned = {}))
    /\ [][(pc = "sequential" /\ arg_idx \in FailingColumns) =>
              (pc' = "failed" /\ error' # <<>>)]_vars
    /\ [][(pc = "gather" /\ pc' # "idle") =>
              \A i \in 1 .. Len(futures) :
                  futures[i].state = "failed" =>
                      (futures'[i] = futures[i] /\ pc' \in {"gather", "failed"})]_vars
    /\ [][pc = "failed" =>
              (pc' = "idle" /\ error' = error /\ error # <<>>
               /\ calls' = calls)]_vars

C10_Witness ==
    /\ pc = "failed"
    /\ parallel
    /\ Len(futures) >= 2
    /\ \E i \in 1 .. Len(futures) : futures[i].state = "done"
    /\ \A i \in 1 .. Len(futures) : futures[i] # Pending

(***************************************************************************)
(* Linked two-table recipe claims.                                         *)
(***************************************************************************)
\* C7: the child table is generated with the realized sum of the partition
\* as its record count, the linkage column has that same length, and once
\* it is inserted it is the leading column of a child table with that many
\* rows.
C7_ChildRowsAreRealizedSum ==
    /\ lpc \in {"ids", "insert", "write", "written"} =>
          /\ numbers = parts
          /\ data_records = SumSeq(numbers)
          /\ Rows(data_table) = SumSeq(numbers)
    /\ lpc \in {"insert", "write", "written"} =>
          Len(ids) = SumSeq(numbers)
    /\ lpc \in {"write", "written"} =>
          /\ data_table[1] = <<"object_id", ids>>
          /\ Len(data_table) = Len(DataFields) + 1
          /\ \A i \in 1 .. Len(data_table) :
                Len(data_table[i][2]) = SumSeq(numbers)
    /\ lpc = "written" => outputs[1].data = data_table

C7_Witness ==
    /\ lpc = "written"
    /\ metadata_records >= 2
    /\ SumSeq(numbers) # range_max
    /\ Rows(outputs[1].data) = SumSeq(numbers)
    /\ numbers[1] # numbers[2]

RECURSIVE Unique(_)
Unique(s) ==
    IF s = <<>> THEN <<>>
    ELSE LET u == Unique(SubSeq(s, 1, Len(s) - 1))
             x == s[Len(s)]
         IN  IF \E k \in 1 .. Len(u) : u[k] = x THEN u ELSE Append(u, x)

Count(s, x) == Cardinality({k \in 1 .. Len(s) : s[k] = x})

\* C8 as stated: grouping the child's leading linkage column by value gives
\* the parent's primary-key sequence in parent row order, each group has the
\* size of the corresponding partition entry, and there are as many distinct
\* linkage values as parent rows.
C8_LinkageGroups ==
    lpc = "written" =>
        LET link == outputs[1].data[1][2]
            keys == Column(outputs[1].metadata, "object_id")
        IN  /\ Unique(link) = keys
            /\ \A i \in 1 .. Len(keys) : Count(link, keys[i]) = numbers[i]
            /\ Len(Unique(link)) = metadata_records

(***************************************************************************)
(* Distributed runtime claims.                                             *)
(***************************************************************************)
\* C11: over any sequence of calls the runtime is initialized at most once:
\* ray.init runs only at the start of a parallel call that finds the runtime
\* not running, with that caller's worker count; a parallel call always
\* leaves the runtime running; no other step, a sequential call included,
\* touches the runtime, and once running it stays running with the same
\* worker count.
C11_RuntimeInitializedOnce ==
    /\ [](/\ Len(ray_inits) <= 1
          /\ ray_initialized <=> ray_inits # <<>>
          /\ ray_initialized => ray_num_cpus = ray_inits[1].num_cpus)
    /\ [][ray_inits' # ray_inits =>
              /\ ~ray_initialized
              /\ pc = "idle" /\ pc' = "gather" /\ parallel'
              /\ ray_inits' = Append(ray_inits,
                                     [call |-> calls', num_cpus |-> num_cpus'])
              /\ ray_num_cpus' = num_cpus']_vars
    /\ [][(pc = "idle" /\ pc' = "gather") => ray_initialized']_vars
    /\ [][~(pc = "idle" /\ pc' = "gather") => UNCHANGED rayVars]_vars
    /\ [][ray_initialized =>
              (ray_initialized' /\ ray_num_cpus' = ray_num_cpus)]_vars

C11_Witness ==
    /\ pc = "gather"
    /\ parallel
    /\ calls >= 2
    /\ Len(ray_inits) = 1
    /\ ray_inits[1].call < calls
    /\ num_cpus # ray_num_cpus

====
